---- MODULE Spec2Model ----
(***************************************************************************)
(* Hypixel-BazaarView: the collector of src/backend.py.  It samples the    *)
(* bazaar order book, stores the top levels of every active product as     *)
(* rows of order_book_snapshot, folds the rank-1 rows of a lookback window *)
(* into OHLCV rows of candles and deletes the snapshots older than the     *)
(* window.                                                                 *)
(* The read service of src/api.py answers from the two relations while    *)
(* the collector runs.                                                     *)
(*                                                                         *)
(* Units.  Time is in whole seconds since the collector was started; the   *)
(* clock never runs backwards.  A raw price (a JSON number of the feed) is *)
(* in thousandths of a coin, a stored price (a DECIMAL(15,2) column) in    *)
(* hundredths.                                                             *)
(***************************************************************************)
EXTENDS Integers, Sequences, FiniteSets, TLC

VARIABLES
    clock,             \* datetime.now(), in seconds
    fetch_interval,    \* run_collection_loop's argument, seconds
    candle_interval,   \* run_collection_loop's argument, minutes
    pc,                \* where run_collection_loop is
    data,              \* what fetch_bazaar_data returned in this cycle
    products,          \* what filter_and_extract_products returned last
    last_candle_time,  \* run_collection_loop's local
    snapshots,         \* the committed rows of order_book_snapshot
    candles,           \* the committed rows of candles
    cycles,            \* fetches made so far
    last,              \* history: the last operation and the relations before it
    consumed,          \* history: snapshot rows a committed pass had in its window
    prev_pass_end,     \* history: when the last pass ended (or the loop started)
    passes,            \* history: committed aggregation passes so far
    api                \* src/api.py: the request being served and its response

vars == << clock, fetch_interval, candle_interval, pc, data, products,
           last_candle_time, snapshots, candles, cycles, last, consumed,
           prev_pass_end, passes, api >>

----------------------------------------------------------------------------
(* Bounds of the model. *)

MaxTime == 130
MaxCandleInterval == 2
SlowStep == 10
MaxCalls == 2
MaxPasses == 2
MaxRequests == 2

(* Constants of the program. *)

MinPrice == 700
MaxDepth == 5
SecondsPerMinute == 60
DefaultFetchInterval == 60
ApiLimit == 5
SecondsPerHour == 3600

Products == {"A", "B"}
FetchIntervals == {DefaultFetchInterval}
CandleIntervals == 1..MaxCandleInterval
Durations == {0, SlowStep}

\* A pass is a transaction of several statements: the clock read after it
\* (line 299) is later than the one read before it (line 180), and so later
\* than the timestamp of every snapshot stored before the pass.
PassDurations == {1, SlowStep}

----------------------------------------------------------------------------
(* The feed: what GET /skyblock/bazaar can answer. *)

Level(p, a, o) == [pricePerUnit |-> p, amount |-> a, orders |-> o]

Book10 == [buy_summary  |-> << Level(10000, 100, 3) >>,
           sell_summary |-> << Level(11004, 40, 2) >>]

Book14 == [buy_summary  |-> << Level(14000, 50, 2), Level(13500, 7, 1),
                               Level(13000, 7, 1), Level(12500, 7, 1),
                               Level(12000, 7, 1), Level(11500, 9, 4) >>,
           sell_summary |-> << Level(15005, 30, 1), Level(16000, 5, 1) >>]

Book9 == [buy_summary  |-> << Level(9000, 25, 1) >>,
          sell_summary |-> << Level(9500, 10, 1) >>]

BookNoBuy == [buy_summary  |-> << >>,
              sell_summary |-> << Level(9500, 10, 1) >>]

BookNoSellKey == [buy_summary |-> << Level(9000, 25, 1) >>]

BookCheapBuy == [buy_summary  |-> << Level(699, 25, 1) >>,
                 sell_summary |-> << Level(9500, 10, 1) >>]

BookCheapSell == [buy_summary  |-> << Level(9000, 25, 1) >>,
                  sell_summary |-> << Level(600, 10, 1), Level(9500, 10, 1) >>]

BookNoPrice == [buy_summary  |-> << [amount |-> 25, orders |-> 1] >>,
                sell_summary |-> << Level(9500, 10, 1) >>]

BookNoAmount == [buy_summary  |-> << Level(9000, 25, 1),
                                     [pricePerUnit |-> 8000, orders |-> 1] >>,
                 sell_summary |-> << Level(9500, 10, 1) >>]

Entry(id, book) == [product_id |-> id, product_data |-> book]

Feed(a, b) == [success |-> TRUE, products |-> << Entry("A", a), Entry("B", b) >>]

FeedError == [success |-> FALSE]

None == [none |-> TRUE]

\* lines 79-81: the request times out, the status is not 2xx
RequestErrors == { [error |-> "Timeout"], [error |-> "HTTPError"] }

Feeds == { Feed(Book10, BookCheapBuy),
           Feed(Book14, Book10),
           Feed(Book9, BookNoBuy),
           Feed(BookCheapSell, Book9),
           Feed(BookNoSellKey, Book14),
           Feed(BookNoPrice, Book10),
           Feed(Book10, BookNoAmount),
           FeedError }

LiveFeeds == { Feed(Book10, BookCheapBuy),
               Feed(BookNoPrice, Book10) }

OpsFeeds == { Feed(Book10, BookCheapBuy),
              Feed(Book14, Book10),
              Feed(Book9, BookNoBuy) }

----------------------------------------------------------------------------
(* filter_and_extract_products *)

Get(d, key, default) == IF key \in DOMAIN d THEN d[key] ELSE default

Take(s, n) == SubSeq(s, 1, IF Len(s) < n THEN Len(s) ELSE n)

Truthy(d) == d # None

HasSides(pd) ==
    /\ Get(pd, "buy_summary", << >>) # << >>
    /\ Get(pd, "sell_summary", << >>) # << >>

\* the KeyError of lines 101-102: a best level without pricePerUnit
ProductRaises(pd) ==
    /\ HasSides(pd)
    /\ \/ "pricePerUnit" \notin DOMAIN pd.buy_summary[1]
       \/ "pricePerUnit" \notin DOMAIN pd.sell_summary[1]

\* a bug: only the buy side is held against the threshold
TooCheapBuyOnly(pd) == pd.buy_summary[1].pricePerUnit < MinPrice

TooCheap(pd) ==
    \/ pd.buy_summary[1].pricePerUnit < MinPrice
    \/ pd.sell_summary[1].pricePerUnit < MinPrice

Accepted(pd) == HasSides(pd) /\ ~ProductRaises(pd) /\ ~TooCheap(pd)

ProductInfo(e, timestamp) ==
    [product_id  |-> e.product_id,
     timestamp   |-> timestamp,
     buy_orders  |-> Take(e.product_data.buy_summary, MaxDepth),
     sell_orders |-> Take(e.product_data.sell_summary, MaxDepth)]

RECURSIVE FilterEntries(_, _)
FilterEntries(entries, timestamp) ==
    IF entries = << >> THEN << >>
    ELSE IF Accepted(Head(entries).product_data)
         THEN << ProductInfo(Head(entries), timestamp) >>
                  \o FilterEntries(Tail(entries), timestamp)
         ELSE FilterEntries(Tail(entries), timestamp)

FilterRaises(d) ==
    /\ Truthy(d)
    /\ "products" \in DOMAIN d
    /\ \E i \in 1..Len(d.products) : ProductRaises(d.products[i].product_data)

filter_and_extract_products(d, now) ==
    IF ~Truthy(d) \/ "products" \notin DOMAIN d THEN << >>
    ELSE FilterEntries(d.products, now)

----------------------------------------------------------------------------
(* order_book_snapshot and store_order_book_snapshot *)

\* DECIMAL(15,2): a price is rounded to two decimals as it is stored
ToDecimal2(p) == (p + 5) \div 10

SameKey(r, s) ==
    /\ r.product_id = s.product_id
    /\ r.timestamp = s.timestamp
    /\ r.side = s.side
    /\ r.rank = s.rank

WellFormed(order) == {"pricePerUnit", "amount", "orders"} \subseteq DOMAIN order

Row(p, side, rank, order) ==
    [product_id |-> p.product_id,
     timestamp  |-> p.timestamp,
     side       |-> side,
     rank       |-> rank,
     price      |-> ToDecimal2(order.pricePerUnit),
     amount     |-> order.amount,
     orders     |-> order.orders]

\* a bug: enumerate(...) without start=1, the best level gets rank 0
SideRowsFromZero(p, side, orders) ==
    [rank \in 1..Len(orders) |-> Row(p, side, rank - 1, orders[rank])]

SideRows(p, side, orders) == [rank \in 1..Len(orders) |-> Row(p, side, rank, orders[rank])]

RECURSIVE BuildRows(_)
BuildRows(ps) ==
    IF ps = << >> THEN << >>
    ELSE SideRows(Head(ps), "BUY", Head(ps).buy_orders)
            \o SideRows(Head(ps), "SELL", Head(ps).sell_orders)
            \o BuildRows(Tail(ps))

\* the KeyError of lines 142-144 and 153-155: a kept level lacks a field
RowsRaise(ps) ==
    \E i \in 1..Len(ps) :
        \/ \E k \in 1..Len(ps[i].buy_orders) : ~WellFormed(ps[i].buy_orders[k])
        \/ \E k \in 1..Len(ps[i].sell_orders) : ~WellFormed(ps[i].sell_orders[k])

\* a bug: ON CONFLICT ... DO UPDATE, the stored row is overwritten
InsertRowOverwriting(table, row) == { r \in table : ~SameKey(r, row) } \cup {row}

\* INSERT ... ON CONFLICT DO NOTHING under the primary key
InsertRow(table, row) ==
    IF \E r \in table : SameKey(r, row) THEN table ELSE table \cup {row}

RECURSIVE execute_batch(_, _)
execute_batch(table, rows) ==
    IF rows = << >> THEN table
    ELSE execute_batch(InsertRow(table, Head(rows)), Tail(rows))

StoreSteps == {"connect", "execute", "commit"}

\* a bug: conn.autocommit = True, every statement is visible as it is executed
CommittedAlways(failing) == TRUE

\* psycopg2 opens a transaction with the first statement; only conn.commit()
\* (lines 165 and 269) makes its statements visible, and an exception before
\* it leaves the connection to be rolled back.
Committed(failing) == failing = "none"

\* What the statements of a call have done inside its transaction when step
\* `failing` raises: the statement that raises is the last of the batch.
StoreWork(table, rows, failing) ==
    IF failing = "connect" THEN table
    ELSE IF failing = "execute" THEN execute_batch(table, SubSeq(rows, 1, Len(rows) - 1))
    ELSE execute_batch(table, rows)

\* a bug: every INSERT of the batch is visible as it is executed
store_autocommit(table, ps, failing) ==
    IF ps = << >> \/ RowsRaise(ps) THEN table
    ELSE StoreWork(table, BuildRows(ps), failing)

\* The relation after a call of store_order_book_snapshot(ps) in which step
\* `failing` raised ("none": no step did).
store_order_book_snapshot(table, ps, failing) ==
    IF ps = << >> \/ RowsRaise(ps) THEN table
    ELSE IF Committed(failing) THEN StoreWork(table, BuildRows(ps), failing)
    ELSE table

StoreRaises(ps, failing) == ps # << >> /\ (RowsRaise(ps) \/ failing # "none")

----------------------------------------------------------------------------
(* candles and generate_candles *)

\* a bug: the pass looks back over two intervals
CutoffTimeTwice(now, interval_minutes) == now - 2 * interval_minutes * SecondsPerMinute

CutoffTime(now, interval_minutes) == now - interval_minutes * SecondsPerMinute

WindowProducts(table, cutoff) ==
    { r.product_id : r \in { x \in table : x.timestamp >= cutoff } }

\* a bug: the queries do not tell the sides apart
PriceSequenceAnySide(table, product_id, cutoff, side) ==
    { r \in table : /\ r.product_id = product_id
                    /\ r.timestamp >= cutoff
                    /\ r.rank = 1 }

PriceSequence(table, product_id, cutoff, side) ==
    { r \in table : /\ r.product_id = product_id
                    /\ r.timestamp >= cutoff
                    /\ r.side = side
                    /\ r.rank = 1 }

RECURSIVE SumAmount(_)
SumAmount(rows) ==
    IF rows = {} THEN 0
    ELSE LET r == CHOOSE x \in rows : TRUE
         IN  r.amount + SumAmount(rows \ {r})

\* a bug: the window is read in descending order
FirstDescending(rows) == CHOOSE r \in rows : \A x \in rows : r.timestamp >= x.timestamp

First(rows) == CHOOSE r \in rows : \A x \in rows : r.timestamp <= x.timestamp
Last(rows) == CHOOSE r \in rows : \A x \in rows : r.timestamp >= x.timestamp

\* a bug: MIN for MAX
MaxPriceIsMin(rows) == CHOOSE p \in { r.price : r \in rows } : \A x \in rows : p <= x.price

MaxPrice(rows) == CHOOSE p \in { r.price : r \in rows } : \A x \in rows : p >= x.price
MinPriceOf(rows) == CHOOSE p \in { r.price : r \in rows } : \A x \in rows : p <= x.price

Candle(table, product_id, cutoff) ==
    LET seq == PriceSequence(table, product_id, cutoff, "BUY")
    IN  [product_id  |-> product_id,
         timestamp   |-> Last(seq).timestamp,
         open        |-> First(seq).price,
         high        |-> MaxPrice(seq),
         low         |-> MinPriceOf(seq),
         close       |-> Last(seq).price,
         buy_volume  |-> SumAmount(seq),
         sell_volume |-> SumAmount(PriceSequence(table, product_id, cutoff, "SELL"))]

SameCandleKey(c, d) == c.product_id = d.product_id /\ c.timestamp = d.timestamp

\* a bug: ON CONFLICT DO NOTHING, the candle of an earlier pass is kept
UpsertKeeping(cs, c) == IF \E d \in cs : SameCandleKey(d, c) THEN cs ELSE cs \cup {c}

\* INSERT ... ON CONFLICT (product_id, timestamp) DO UPDATE SET ...
Upsert(cs, c) == { d \in cs : ~SameCandleKey(d, c) } \cup {c}

RECURSIVE UpsertAll(_, _, _, _)
UpsertAll(cs, table, ids, cutoff) ==
    IF ids = {} THEN cs
    ELSE LET id == CHOOSE x \in ids : TRUE
             next == IF PriceSequence(table, id, cutoff, "BUY") = {}
                     THEN cs
                     ELSE Upsert(cs, Candle(table, id, cutoff))
         IN  UpsertAll(next, table, ids \ {id}, cutoff)

\* a bug: the row stamped exactly at the cutoff is deleted too
DeleteOldInclusive(table, cutoff) == { r \in table : ~(r.timestamp <= cutoff) }

DeleteOld(table, cutoff) == { r \in table : ~(r.timestamp < cutoff) }

PassSteps == {"connect", "products", "ohlc", "sell_volume", "upsert", "delete", "commit"}

\* What the statements of a pass have done inside its transaction when step
\* `failing` raises: the candles are upserted in the loop of lines 193-259,
\* the DELETE of lines 262-265 follows it.
PassWork(table, cs, cutoff, failing) ==
    [snapshots |-> IF failing \in {"commit", "none"}
                   THEN DeleteOld(table, cutoff) ELSE table,
     candles   |-> IF failing \in {"delete", "commit", "none"}
                   THEN UpsertAll(cs, table, WindowProducts(table, cutoff), cutoff)
                   ELSE cs]

\* The two relations after a call of generate_candles at `now` in which step
\* `failing` raised ("none": no step did): one transaction, committed at the end.
generate_candles(table, cs, now, interval_minutes, failing) ==
    IF Committed(failing)
    THEN PassWork(table, cs, CutoffTime(now, interval_minutes), failing)
    ELSE [snapshots |-> table, candles |-> cs]

----------------------------------------------------------------------------
(* src/api.py: the handlers of the read service.  A handler opens its own  *)
(* connection; each of its queries reads what is committed when it runs.   *)

NoProduct == ""

\* MAX(timestamp) over no row
NoTime == -1

\* ORDER BY product_id
ProductOrder == << "A", "B" >>

RequestHours == {1}

\* what can raise in a handler: psycopg2.connect, cur.execute, int(hours)
ApiErrors == {"connect", "query", "hours"}

NoResponse == [status |-> 0]

\* what Flask answers when an exception leaves a handler
InternalServerError == [status |-> 500]

ApiStart ==
    [pc          |-> "idle",
     handler     |-> "none",
     product     |-> NoProduct,
     failing     |-> "none",
     rows        |-> {},
     latest_time |-> NoTime,
     buy_orders  |-> << >>,
     response    |-> NoResponse,
     requests    |-> 0]

\* a bug: except psycopg2.OperationalError, a failed query is not caught
HandlerCatchesConnectOnly(failing) == failing = "connect"

\* lines 32, 80, 156: except Exception
HandlerCatches(failing) == failing \in ApiErrors

Respond(failing, normal, degraded) ==
    IF failing = "none" THEN normal
    ELSE IF HandlerCatches(failing) THEN degraded
    ELSE InternalServerError

SortedIds(ids) == SelectSeq(ProductOrder, LAMBDA p : p \in ids)

CandleProducts(cs) == { c.product_id : c \in cs }

get_products(cs, failing) ==
    Respond(failing,
            [status |-> 200, body |-> SortedIds(CandleProducts(cs))],
            [status |-> 200, body |-> << >>])

RECURSIVE ByTimestamp(_)
ByTimestamp(rows) ==
    IF rows = {} THEN << >>
    ELSE LET r == CHOOSE x \in rows : \A y \in rows : x.timestamp <= y.timestamp
         IN  << r >> \o ByTimestamp(rows \ {r})

\* lines 68-76: strftime to the second, float() and int() of the columns
CandleJson(c) ==
    [timestamp   |-> c.timestamp,
     open        |-> c.open,
     high        |-> c.high,
     low         |-> c.low,
     close       |-> c.close,
     buy_volume  |-> c.buy_volume,
     sell_volume |-> c.sell_volume]

CandleRows(cs, product, hours, now) ==
    { c \in cs : /\ c.product_id = product
                 /\ c.timestamp >= now - hours * SecondsPerHour }

MissingProduct == [status |-> 400, body |-> [error |-> "Product parameter required"]]

get_candles(cs, product, hours, now, failing) ==
    LET sorted == ByTimestamp(CandleRows(cs, product, hours, now))
        degraded == [status |-> 200, body |-> [error |-> "exception", candles |-> << >>]]
    IN  IF failing = "hours" THEN Respond(failing, degraded, degraded)
        ELSE IF product = NoProduct THEN MissingProduct
        ELSE Respond(failing,
                     IF sorted = << >>
                     THEN [status |-> 200,
                           body |-> [error |-> "No data available for this product",
                                     candles |-> << >>]]
                     ELSE [status |-> 200,
                           body |-> [candles |-> [i \in 1..Len(sorted) |-> CandleJson(sorted[i])]]],
                     degraded)

\* lines 97-103
LatestTime(table, product) ==
    LET times == { r.timestamp : r \in { x \in table : x.product_id = product } }
    IN  IF times = {} THEN NoTime
        ELSE CHOOSE t \in times : \A u \in times : u <= t

RECURSIVE ByRank(_)
ByRank(rows) ==
    IF rows = {} THEN << >>
    ELSE LET r == CHOOSE x \in rows : \A y \in rows : x.rank <= y.rank
         IN  << r >> \o ByRank(rows \ {r})

LevelJson(r) == [price |-> r.price, amount |-> r.amount, orders |-> r.orders]

\* lines 111-127 and 130-146
SideLevels(table, product, time, side) ==
    LET sorted == Take(ByRank({ r \in table : /\ r.product_id = product
                                              /\ r.timestamp = time
                                              /\ r.side = side }), ApiLimit)
    IN  [i \in 1..Len(sorted) |-> LevelJson(sorted[i])]

OrderbookJson(buy_orders, sell_orders) ==
    [status |-> 200, body |-> [buy_orders |-> buy_orders, sell_orders |-> sell_orders]]

OrderbookDegraded ==
    [status |-> 200,
     body |-> [error |-> "exception", buy_orders |-> << >>, sell_orders |-> << >>]]

----------------------------------------------------------------------------
(* History, kept for the properties only. *)

Hist(op, failing, now, interval_minutes, batch) ==
    [op        |-> op,
     failing   |-> failing,
     from      |-> pc,
     since     |-> prev_pass_end,
     now       |-> now,
     cutoff    |-> CutoffTime(now, interval_minutes),
     batch     |-> batch,
     snapshots |-> snapshots,
     candles   |-> candles]

InWindow(table, cutoff) == { r \in table : r.timestamp >= cutoff }

----------------------------------------------------------------------------
(* run_collection_loop *)

Running == {"FETCHING", "STORING", "CHECKING", "AGGREGATING", "IDLE"}

Init ==
    /\ clock = 0
    /\ fetch_interval \in FetchIntervals
    /\ candle_interval \in CandleIntervals
    /\ pc = "FETCHING"
    /\ data = None
    /\ products = << >>
    /\ last_candle_time = 0
    /\ snapshots = {}
    /\ candles = {}
    /\ cycles = 0
    /\ consumed = {}
    /\ prev_pass_end = 0
    /\ passes = 0
    /\ api = ApiStart
    /\ last = Hist("start", "none", 0, 0, << >>)

\* a bug: only the timeout is caught
FetchCatchesTimeoutOnly(answer) == answer.error = "Timeout"

\* line 82: except Exception catches whatever the request raised
FetchCatches(answer) == answer \in RequestErrors

\* lines 78-84: the parsed body, or None when the request raised
fetch_bazaar_data(answer) ==
    IF answer \in RequestErrors THEN None ELSE answer

FetchRaises(answer) == answer \in RequestErrors /\ ~FetchCatches(answer)

\* line 288: the feed answers with a body or the request fails
Fetch(took, answer) ==
    /\ pc = "FETCHING"
    /\ clock + took <= MaxTime
    /\ clock' = clock + took
    /\ data' = fetch_bazaar_data(answer)
    /\ cycles' = cycles + 1
    /\ pc' = IF FetchRaises(answer) THEN "CRASHED" ELSE "STORING"
    /\ last' = Hist("fetch", IF answer \in RequestErrors THEN answer.error ELSE "none",
                    clock, 0, << >>)
    /\ UNCHANGED << api, fetch_interval, candle_interval, products, last_candle_time,
                    snapshots, candles, consumed, prev_pass_end, passes >>

\* line 290: no data, nothing is filtered or stored
SkipStore ==
    /\ pc = "STORING"
    /\ ~Truthy(data)
    /\ pc' = "CHECKING"
    /\ last' = Hist("skip", "none", clock, 0, << >>)
    /\ UNCHANGED << api, clock, fetch_interval, candle_interval, data, products,
                    last_candle_time, snapshots, candles, cycles, consumed,
                    prev_pass_end, passes >>

\* line 291: filter_and_extract_products raises, nothing catches it
FilterCrash ==
    /\ pc = "STORING"
    /\ FilterRaises(data)
    /\ pc' = "CRASHED"
    /\ last' = Hist("filter", "KeyError", clock, 0, << >>)
    /\ UNCHANGED << api, clock, fetch_interval, candle_interval, data, products,
                    last_candle_time, snapshots, candles, cycles, consumed,
                    prev_pass_end, passes >>

\* lines 291-292: filter, then store in one transaction
Store(failing, took) ==
    /\ pc = "STORING"
    /\ Truthy(data)
    /\ ~FilterRaises(data)
    /\ clock + took <= MaxTime
    /\ LET ps == filter_and_extract_products(data, clock)
       IN  /\ products' = ps
           /\ snapshots' = store_order_book_snapshot(snapshots, ps, failing)
           /\ pc' = IF StoreRaises(ps, failing) THEN "CRASHED" ELSE "CHECKING"
           /\ last' = Hist("store", failing, clock, 0, ps)
    /\ clock' = clock + took
    /\ UNCHANGED << api, fetch_interval, candle_interval, data, last_candle_time,
                    candles, cycles, consumed, prev_pass_end, passes >>

\* a bug: the elapsed seconds are held against the interval in minutes
DueInSeconds(now, since, interval_minutes) == now - since >= interval_minutes

\* a bug: > for >=
DueStrictly(now, since, interval_minutes) == now - since > interval_minutes * SecondsPerMinute

\* a bug: the elapsed time is not looked at, every cycle runs a pass
DueEveryCycle(now, since, interval_minutes) == TRUE

\* line 294-296
Due(now, since, interval_minutes) == now - since >= interval_minutes * SecondsPerMinute

Check ==
    /\ pc = "CHECKING"
    /\ pc' = IF Due(clock, last_candle_time, candle_interval) THEN "AGGREGATING" ELSE "IDLE"
    /\ last' = Hist("check", "none", clock, 0, << >>)
    /\ UNCHANGED << api, clock, fetch_interval, candle_interval, data, products,
                    last_candle_time, snapshots, candles, cycles, consumed,
                    prev_pass_end, passes >>

\* lines 298-299: a pass that commits, then the aggregation clock is reset
Aggregate(took) ==
    /\ pc = "AGGREGATING"
    /\ LET after == generate_candles(snapshots, candles, clock, candle_interval, "none")
       IN  /\ snapshots' = after.snapshots
           /\ candles' = after.candles
    /\ clock' = clock + took
    /\ last_candle_time' = clock'
    /\ pc' = "IDLE"
    /\ last' = Hist("aggregate", "none", clock, candle_interval, << >>)
    /\ consumed' = consumed \cup InWindow(snapshots, CutoffTime(clock, candle_interval))
    /\ prev_pass_end' = clock'
    /\ passes' = passes + 1
    /\ UNCHANGED << api, fetch_interval, candle_interval, data, products, cycles >>

\* line 298: a step of the pass raises, nothing catches it
AggregateCrash(failing) ==
    /\ pc = "AGGREGATING"
    /\ LET after == generate_candles(snapshots, candles, clock, candle_interval, failing)
       IN  /\ snapshots' = after.snapshots
           /\ candles' = after.candles
    /\ pc' = "CRASHED"
    /\ last' = Hist("aggregate", failing, clock, candle_interval, << >>)
    /\ UNCHANGED << api, clock, fetch_interval, candle_interval, data, products,
                    last_candle_time, cycles, consumed, prev_pass_end, passes >>

\* line 301
Sleep ==
    /\ pc = "IDLE"
    /\ clock + fetch_interval <= MaxTime
    /\ clock' = clock + fetch_interval
    /\ pc' = "FETCHING"
    /\ last' = Hist("sleep", "none", clock, 0, << >>)
    /\ UNCHANGED << api, fetch_interval, candle_interval, data, products,
                    last_candle_time, snapshots, candles, cycles, consumed,
                    prev_pass_end, passes >>

\* lines 285, 303: KeyboardInterrupt is raised wherever the loop is
Interrupt ==
    /\ pc \in Running
    /\ pc' = "STOPPED"
    /\ last' = Hist("interrupt", "KeyboardInterrupt", clock, 0, << >>)
    /\ UNCHANGED << api, clock, fetch_interval, candle_interval, data, products,
                    last_candle_time, snapshots, candles, cycles, consumed,
                    prev_pass_end, passes >>

\* A step of the loop, the feed answering with one of `feeds`.
Step(feeds) ==
    \/ \E took \in Durations, answer \in feeds \cup RequestErrors : Fetch(took, answer)
    \/ SkipStore
    \/ FilterCrash
    \/ \E failing \in StoreSteps \cup {"none"}, took \in Durations : Store(failing, took)
    \/ Check
    \/ \E took \in PassDurations : Aggregate(took)
    \/ \E failing \in PassSteps : AggregateCrash(failing)
    \/ Sleep
    \/ Interrupt

Next == Step(Feeds)

Spec == Init /\ [][Next]_vars

\* The loop is one sequential thread: at the check of line 296 it goes on, and
\* a pass it has started comes to an end.  Progress is checked over fewer
\* answers of the feed.
LiveNext == Step(LiveFeeds)

LiveSpec ==
    /\ Init
    /\ [][LiveNext]_vars
    /\ WF_vars(Check)
    /\ WF_vars(\E took \in PassDurations : Aggregate(took))

----------------------------------------------------------------------------
(* The functions of backend.py called one by one, as a caller or a retry   *)
(* after a crash may call them: any order, any number of times.            *)

OpsInit ==
    /\ clock = 0
    /\ fetch_interval \in FetchIntervals
    /\ candle_interval \in CandleIntervals
    /\ pc = "CALLER"
    /\ data = None
    /\ products = << >>
    /\ last_candle_time = 0
    /\ snapshots = {}
    /\ candles = {}
    /\ cycles = 0
    /\ consumed = {}
    /\ prev_pass_end = 0
    /\ passes = 0
    /\ api = ApiStart
    /\ last = Hist("start", "none", 0, 0, << >>)

CallTick ==
    /\ clock + fetch_interval <= MaxTime
    /\ clock' = clock + fetch_interval
    /\ UNCHANGED << api, fetch_interval, candle_interval, pc, data, products,
                    last_candle_time, snapshots, candles, cycles, last, consumed,
                    prev_pass_end, passes >>

CallFilter(feed) ==
    /\ cycles < MaxCalls
    /\ ~FilterRaises(feed)
    /\ data' = feed
    /\ products' = filter_and_extract_products(feed, clock)
    /\ cycles' = cycles + 1
    /\ UNCHANGED << api, clock, fetch_interval, candle_interval, pc, last_candle_time,
                    snapshots, candles, last, consumed, prev_pass_end, passes >>

CallStore(failing) ==
    /\ snapshots' = store_order_book_snapshot(snapshots, products, failing)
    /\ last' = Hist("store", failing, clock, 0, products)
    /\ UNCHANGED << api, clock, fetch_interval, candle_interval, pc, data, products,
                    last_candle_time, candles, cycles, consumed, prev_pass_end,
                    passes >>

CallGenerate(failing) ==
    /\ passes < MaxPasses
    /\ LET after == generate_candles(snapshots, candles, clock, candle_interval, failing)
       IN  /\ snapshots' = after.snapshots
           /\ candles' = after.candles
    /\ last' = Hist("aggregate", failing, clock, candle_interval, << >>)
    /\ passes' = passes + 1
    /\ UNCHANGED << api, clock, fetch_interval, candle_interval, pc, data, products,
                    last_candle_time, cycles, consumed, prev_pass_end >>

OpsNext ==
    \/ CallTick
    \/ \E feed \in OpsFeeds : CallFilter(feed)
    \/ \E failing \in StoreSteps \cup {"none"} : CallStore(failing)
    \/ \E failing \in PassSteps \cup {"none"} : CallGenerate(failing)

OpsSpec == OpsInit /\ [][OpsNext]_vars

----------------------------------------------------------------------------
(* The read service next to the collector: a request is served while the   *)
(* loop runs, and the three queries of get_orderbook are three statements  *)
(* between which the collector may commit.                                 *)

collector == << clock, fetch_interval, candle_interval, pc, data, products,
                last_candle_time, snapshots, candles, cycles, last, consumed,
                prev_pass_end, passes >>

Served(handler, product, failing, rows, response) ==
    [pc          |-> "idle",
     handler     |-> handler,
     product     |-> product,
     failing     |-> failing,
     rows        |-> rows,
     latest_time |-> NoTime,
     buy_orders  |-> << >>,
     response    |-> response,
     requests    |-> api.requests + 1]

\* GET /api/products
GetProducts(failing) ==
    /\ api.pc = "idle"
    /\ api.requests < MaxRequests
    /\ api' = Served("products", NoProduct, failing,
                     IF failing = "none" THEN CandleProducts(candles) ELSE {},
                     get_products(candles, failing))
    /\ UNCHANGED collector

\* GET /api/candles?product=..&hours=..
GetCandles(product, hours, failing) ==
    /\ api.pc = "idle"
    /\ api.requests < MaxRequests
    /\ api' = Served("candles", product, failing,
                     IF failing = "none" /\ product # NoProduct
                     THEN CandleRows(candles, product, hours, clock) ELSE {},
                     get_candles(candles, product, hours, clock, failing))
    /\ UNCHANGED collector

\* GET /api/orderbook?product=.. up to the first query (lines 88-108)
GetOrderbook(product, failing) ==
    /\ api.pc = "idle"
    /\ api.requests < MaxRequests
    /\ LET latest_time == LatestTime(snapshots, product)
       IN  api' =
             IF product = NoProduct
             THEN Served("orderbook", product, "none", {}, MissingProduct)
             ELSE IF failing # "none"
             THEN Served("orderbook", product, failing, {},
                         Respond(failing, OrderbookDegraded, OrderbookDegraded))
             ELSE IF latest_time = NoTime
             THEN Served("orderbook", product, failing, {},
                         OrderbookJson(<< >>, << >>))
             ELSE [Served("orderbook", product, failing, {}, NoResponse)
                      EXCEPT !.pc = "buy", !.latest_time = latest_time]
    /\ UNCHANGED collector

\* the second query (lines 111-127)
OrderbookBuy(failing) ==
    /\ api.pc = "buy"
    /\ api' = IF failing # "none"
              THEN [api EXCEPT !.pc = "idle", !.failing = failing,
                               !.response = Respond(failing, OrderbookDegraded,
                                                    OrderbookDegraded)]
              ELSE [api EXCEPT !.pc = "sell",
                               !.buy_orders = SideLevels(snapshots, api.product,
                                                         api.latest_time, "BUY")]
    /\ UNCHANGED collector

\* the third query and the answer (lines 130-154)
OrderbookSell(failing) ==
    /\ api.pc = "sell"
    /\ api' = [api EXCEPT
                 !.pc = "idle",
                 !.failing = failing,
                 !.response =
                     Respond(failing,
                             OrderbookJson(api.buy_orders,
                                           SideLevels(snapshots, api.product,
                                                      api.latest_time, "SELL")),
                             OrderbookDegraded)]
    /\ UNCHANGED collector

ApiNext ==
    \/ Step(LiveFeeds)
    \/ \E failing \in {"none", "connect", "query"} : GetProducts(failing)
    \/ \E product \in Products \cup {NoProduct}, hours \in RequestHours,
          failing \in {"none"} \cup ApiErrors : GetCandles(product, hours, failing)
    \/ \E product \in Products \cup {NoProduct},
          failing \in {"none", "connect", "query"} : GetOrderbook(product, failing)
    \/ \E failing \in {"none", "query"} : OrderbookBuy(failing)
    \/ \E failing \in {"none", "query"} : OrderbookSell(failing)

ApiSpec == Init /\ [][ApiNext]_vars

----------------------------------------------------------------------------
(* The properties. *)

CommittedStore == last.op = "store" /\ last.failing = "none"
CommittedPass == last.op = "aggregate" /\ last.failing = "none"

BatchRows == BuildRows(last.batch)

\* C1: writing a batch whose keys (product_id, timestamp, side, rank) are
\* already stored adds no row and changes no stored row: the relation holds
\* one row per key, every row it held before the write is still there
\* unchanged, every key of the batch is there, the only new rows are rows of
\* the batch, and writing the same batch once more leaves the relation as
\* the first write left it.
C1_SnapshotWriteIdempotent ==
    /\ \A r, s \in snapshots : SameKey(r, s) => r = s
    /\ CommittedStore =>
          /\ last.snapshots \subseteq snapshots
          /\ \A i \in DOMAIN BatchRows : \E r \in snapshots : SameKey(r, BatchRows[i])
          /\ \A r \in snapshots \ last.snapshots : \E i \in DOMAIN BatchRows : BatchRows[i] = r
          /\ store_order_book_snapshot(snapshots, last.batch, "none") = snapshots

\* C1's case: every key of the written batch was stored before the write, one
\* of them with other values
C1_Witness ==
    /\ CommittedStore
    /\ last.batch # << >>
    /\ \A i \in DOMAIN BatchRows : \E r \in last.snapshots : SameKey(r, BatchRows[i])
    /\ \E i \in DOMAIN BatchRows : BatchRows[i] \notin last.snapshots
    /\ snapshots = last.snapshots

RawExcluded(pd) ==
    LET buy == Get(pd, "buy_summary", << >>)
        sell == Get(pd, "sell_summary", << >>)
    IN  \/ buy = << >>
        \/ sell = << >>
        \/ buy[1].pricePerUnit < MinPrice
        \/ sell[1].pricePerUnit < MinPrice

\* C2: of the raw product map of a cycle, a product with an empty buy or sell
\* side, or with a best buy or best sell price below 0.7, is not among the
\* filtered products and gets no snapshot row in that cycle; a filtered
\* product keeps at most 5 levels per side, the first ones of the feed; no
\* snapshot row has a rank above 5.
C2_FilterCorrect ==
    /\ \A r \in snapshots : r.rank <= MaxDepth
    /\ (last.op = "store" /\ "products" \in DOMAIN data) =>
          /\ \A i \in DOMAIN data.products :
                RawExcluded(data.products[i].product_data) =>
                   /\ \A k \in DOMAIN products :
                         products[k].product_id # data.products[i].product_id
                   /\ \A r \in snapshots :
                         ~(/\ r.product_id = data.products[i].product_id
                           /\ r.timestamp = last.now)
          /\ \A k \in DOMAIN products :
                \E i \in DOMAIN data.products :
                   LET pd == data.products[i].product_data
                   IN  /\ products[k].product_id = data.products[i].product_id
                       /\ Len(products[k].buy_orders) <= MaxDepth
                       /\ Len(products[k].sell_orders) <= MaxDepth
                       /\ \A n \in DOMAIN products[k].buy_orders :
                             products[k].buy_orders[n] = pd.buy_summary[n]
                       /\ \A n \in DOMAIN products[k].sell_orders :
                             products[k].sell_orders[n] = pd.sell_summary[n]

\* C2's case: a store whose feed holds a product below the threshold, while a
\* book deeper than 5 levels has been stored down to rank 5
C2_Witness ==
    /\ CommittedStore
    /\ "products" \in DOMAIN data
    /\ \E i \in DOMAIN data.products :
          LET pd == data.products[i].product_data
          IN  /\ HasSides(pd)
              /\ pd.buy_summary[1].pricePerUnit >= MinPrice
              /\ pd.sell_summary[1].pricePerUnit < MinPrice
    /\ \E r \in snapshots : r.rank = MaxDepth

WindowBuys(id) ==
    { r \in last.snapshots : /\ r.product_id = id
                             /\ r.side = "BUY"
                             /\ r.rank = 1
                             /\ r.timestamp >= last.cutoff }

\* C3: after a committed pass, every product with a rank-1 BUY snapshot at or
\* after the cutoff has a candle whose open is the price of the earliest such
\* snapshot, close the price of the latest, high the maximum and low the
\* minimum price, buy_volume the sum of the amounts, and whose timestamp is
\* the timestamp of the latest such snapshot.
C3_AggregationCorrect ==
    CommittedPass =>
       \A id \in Products :
          WindowBuys(id) # {} =>
             \E c \in candles, f \in WindowBuys(id), l \in WindowBuys(id) :
                /\ \A x \in WindowBuys(id) : f.timestamp <= x.timestamp /\ x.timestamp <= l.timestamp
                /\ c.product_id = id
                /\ c.timestamp = l.timestamp
                /\ c.open = f.price
                /\ c.close = l.price
                /\ \A x \in WindowBuys(id) : c.low <= x.price /\ x.price <= c.high
                /\ \E x \in WindowBuys(id) : c.high = x.price
                /\ \E x \in WindowBuys(id) : c.low = x.price
                /\ c.buy_volume = SumAmount(WindowBuys(id))

\* C3's case, the example: prices 10, 14, 9 and amounts 100, 50, 25 at
\* t1 < t2 < t3 give open 10, high 14, low 9, close 9, buy_volume 175 at t3
C3_Witness ==
    /\ CommittedPass
    /\ Cardinality(WindowBuys("A")) = 3
    /\ \E c \in candles :
          /\ c.product_id = "A"
          /\ c.timestamp = last.now
          /\ c.open = 1000 /\ c.high = 1400 /\ c.low = 900 /\ c.close = 900
          /\ c.buy_volume = 175

\* C4: the candle relation holds one row per (product_id, timestamp); a pass
\* that computes a candle for a key an earlier pass wrote leaves one row for
\* it, with the values of this pass; every other candle is left as it was;
\* and a pass run again at the same time over the snapshots the pass left
\* changes nothing.
C4_AggregationIdempotent ==
    /\ \A c, d \in candles : SameCandleKey(c, d) => c = d
    /\ CommittedPass =>
          /\ \A d \in last.candles :
                IF /\ WindowBuys(d.product_id) # {}
                   /\ \A x \in WindowBuys(d.product_id) : x.timestamp <= d.timestamp
                   /\ \E x \in WindowBuys(d.product_id) : x.timestamp = d.timestamp
                THEN \E c \in candles :
                        /\ SameCandleKey(c, d)
                        /\ \E f \in WindowBuys(d.product_id) :
                              /\ \A x \in WindowBuys(d.product_id) : f.timestamp <= x.timestamp
                              /\ c.open = f.price
                        /\ c.buy_volume = SumAmount(WindowBuys(d.product_id))
                ELSE d \in candles
          /\ Cardinality(candles) >= Cardinality(last.candles)
          /\ generate_candles(snapshots, candles, last.now, candle_interval, "none")
                = [snapshots |-> snapshots, candles |-> candles]

\* C4's case: a pass has overwritten a candle of an earlier pass with other values
C4_Witness ==
    /\ CommittedPass
    /\ \E d \in last.candles, c \in candles : SameCandleKey(c, d) /\ c # d
    /\ Cardinality(candles) = Cardinality(last.candles)

PassCutoff == last.now - candle_interval * SecondsPerMinute

\* C5: after a committed pass with cutoff C = now - candle interval, no
\* snapshot older than C is left, every snapshot at or after C that was there
\* before the pass is there unchanged, and the pass adds no snapshot.
C5_RetentionCorrect ==
    CommittedPass =>
       /\ \A r \in snapshots : r.timestamp >= PassCutoff
       /\ \A r \in last.snapshots : r.timestamp >= PassCutoff => r \in snapshots
       /\ snapshots \subseteq last.snapshots

\* C5's case: the pass deleted the snapshots of one cycle and kept those of a later one
C5_Witness ==
    /\ CommittedPass
    /\ \E r \in last.snapshots : r \notin snapshots
    /\ \E r \in snapshots : r.timestamp >= PassCutoff

\* C6: every snapshot a committed pass deletes was in the lookback window
\* (timestamp >= cutoff) of a committed pass, this one or an earlier one.
C6_DeletedOnlyOnceAggregated ==
    CommittedPass => (last.snapshots \ snapshots) \subseteq consumed

\* C7: a pass in which a step raises deletes no snapshot: the snapshot
\* relation after it is the one before it.
C7_FailedPassDeletesNothing ==
    (last.op = "aggregate" /\ last.failing # "none") => snapshots = last.snapshots

\* C7's case: a step of the pass raised while snapshots older than its cutoff
\* were stored
C7_Witness ==
    /\ last.op = "aggregate"
    /\ last.failing = "commit"
    /\ \E r \in snapshots : r.timestamp < last.cutoff

SinceLastPass == clock - prev_pass_end

\* C8: whenever a pass starts, at least candle_interval minutes have passed
\* since the previous pass ended, or since the loop started when it is the
\* first one.
C8_OncePerInterval ==
    pc = "AGGREGATING" => SinceLastPass >= candle_interval * SecondsPerMinute

\* C8's case: a second pass starts
C8_Witness == pc = "AGGREGATING" /\ passes >= 1

DueNow == SinceLastPass >= candle_interval * SecondsPerMinute

\* C9: a cycle never ends with the threshold met and no pass run; a cycle
\* whose fetch/store step is over with the threshold met goes on to the pass,
\* whatever the fetch returned; a pass that returns has swept the snapshots
\* older than its cutoff and resets the aggregation clock; and once the
\* threshold is met at the check, the pass is run to its end unless the loop
\* is stopped or the pass raises.
C9_DueCycleAggregates ==
    /\ [](pc = "IDLE" => ~DueNow)
    /\ [][(pc = "CHECKING" /\ DueNow) => pc' \in {"AGGREGATING", "STOPPED"}]_vars
    /\ [][(pc = "AGGREGATING" /\ pc' = "IDLE") =>
             /\ passes' = passes + 1
             /\ last_candle_time' = clock'
             /\ \A r \in snapshots' : r.timestamp >= clock - candle_interval * SecondsPerMinute]_vars
    /\ ((pc = "CHECKING" /\ DueNow) ~> (pc \in {"IDLE", "STOPPED", "CRASHED"}))

\* C9's case: a pass has run in a cycle whose fetch failed and came back late
C9_Witness ==
    /\ CommittedPass
    /\ pc = "IDLE"
    /\ data = None
    /\ last.now - last.since > candle_interval * SecondsPerMinute

\* C10: the loop stops only from the sleep between two cycles, never while a
\* fetch, a store or a pass is in progress.
C10_StopOnlyBetweenCycles ==
    pc = "STOPPED" => last.from = "IDLE"

\* C11: a fetch that fails does not end the loop: the cycle writes no row of
\* either relation, its elapsed-time check is still evaluated, and the cycle
\* after the sleep fetches again; a body without products stores nothing
\* and goes on to the check as well.
C11_FetchFailureNonFatal ==
    /\ (last.op = "fetch" /\ last.failing # "none") =>
          /\ pc = "STORING"
          /\ data = None
          /\ snapshots = last.snapshots
          /\ candles = last.candles
    /\ last.op = "skip" =>
          /\ data = None
          /\ pc = "CHECKING"
          /\ snapshots = last.snapshots
          /\ candles = last.candles
    /\ (last.op = "store" /\ data = FeedError) =>
          /\ pc = "CHECKING"
          /\ snapshots = last.snapshots
          /\ candles = last.candles
    /\ (last.op = "check" /\ data = None) => pc \in {"AGGREGATING", "IDLE"}
    /\ last.op = "sleep" => pc = "FETCHING"

\* C11's case: after a cycle that stored rows, a fetch failed and the check of
\* the failed cycle has sent the loop to the pass
C11_Witness ==
    /\ data = None
    /\ pc = "AGGREGATING"
    /\ cycles >= 2
    /\ snapshots # {}

\* the levels of a product the collector keeps all carry their three fields
KeptLevelsWellFormed(pd) ==
    /\ \A k \in 1..Len(Take(pd.buy_summary, MaxDepth)) : WellFormed(pd.buy_summary[k])
    /\ \A k \in 1..Len(Take(pd.sell_summary, MaxDepth)) : WellFormed(pd.sell_summary[k])

\* C12: a product with a level that lacks pricePerUnit, amount or orders is
\* skipped and nothing else: the cycle does not end the loop, no row of the
\* malformed product is stored, and every well-formed product of the same
\* batch that passes the filter has its rows stored at the cycle's timestamp.
C12_MalformedProductSkipped ==
    (/\ last.op \in {"filter", "store"}
     /\ last.failing \in {"none", "KeyError"}
     /\ "products" \in DOMAIN data) =>
        /\ pc # "CRASHED"
        /\ \A i \in 1..Len(data.products) :
              LET e == data.products[i]
              IN  IF HasSides(e.product_data) /\ KeptLevelsWellFormed(e.product_data)
                  THEN ~TooCheap(e.product_data) =>
                          \E r \in snapshots : /\ r.product_id = e.product_id
                                                 /\ r.timestamp = last.now
                  ELSE \A r \in snapshots : ~(/\ r.product_id = e.product_id
                                                /\ r.timestamp = last.now)

\* C13: a store or a pass in which the database raises ends the loop with the
\* exception, and none of the rows the failed call has written or deleted
\* is committed: both relations are as they were before the call.
C13_StorageFailureFatal ==
    /\ (last.op = "store" /\ last.failing \in StoreSteps /\ last.batch # << >>) =>
          /\ pc = "CRASHED"
          /\ snapshots = last.snapshots
          /\ candles = last.candles
    /\ (last.op = "aggregate" /\ last.failing \in PassSteps) =>
          /\ pc = "CRASHED"
          /\ snapshots = last.snapshots
          /\ candles = last.candles

\* C13's case: the batch of a cycle was being inserted, into a relation that
\* holds rows of an earlier cycle, when a statement raised
C13_Witness ==
    /\ last.op = "store"
    /\ last.failing = "execute"
    /\ ~RowsRaise(last.batch)
    /\ Len(BuildRows(last.batch)) > 1
    /\ last.snapshots # {}
    /\ pc = "CRASHED"

Answered(handler) == api.pc = "idle" /\ api.handler = handler

\* C14: no exception leaves a handler of the read service, and a handler
\* whose connection or query raised, or whose query matched no row, answers
\* normally with an empty result: an empty product list, an empty 'candles'
\* list, empty 'buy_orders' and 'sell_orders' lists.
C14_ReadServiceDegrades ==
    /\ api.response # InternalServerError
    /\ (Answered("products") /\ (api.failing # "none" \/ api.rows = {})) =>
          api.response = [status |-> 200, body |-> << >>]
    /\ (/\ Answered("candles")
        /\ api.failing = "hours" \/ api.product # NoProduct
        /\ api.failing # "none" \/ api.rows = {}) =>
          /\ api.response.status = 200
          /\ api.response.body.candles = << >>
    /\ (/\ Answered("orderbook")
        /\ api.product # NoProduct
        /\ api.failing # "none" \/ api.latest_time = NoTime) =>
          /\ api.response.status = 200
          /\ api.response.body.buy_orders = << >>
          /\ api.response.body.sell_orders = << >>

\* C14's case: the store became unreachable in the middle of get_orderbook,
\* after the first query had found the snapshot of a product that has candles
C14_Witness ==
    /\ Answered("orderbook")
    /\ api.failing = "query"
    /\ api.latest_time # NoTime
    /\ api.product \in CandleProducts(candles)
    /\ api.response = OrderbookDegraded

\* C18: an answer of get_orderbook is never torn: the stored snapshots of a
\* product all have both sides, and of the two lists answered one is never
\* filled while the other is empty, whatever the collector commits between
\* the three queries of the handler.
C18_OrderbookOneSnapshot ==
    (/\ Answered("orderbook")
     /\ api.product # NoProduct
     /\ api.failing = "none") =>
        (api.response.body.buy_orders = << >>
            <=> api.response.body.sell_orders = << >>)

\* C15: no operation of the collector removes a candle or changes one that
\* an earlier pass has written: every candle there was before the last
\* operation is still there with the same fields, and the cutoff of a pass is
\* later than the window end of every candle written before it.
C15_CandleImmutable ==
    /\ last.candles \subseteq candles
    /\ CommittedPass => \A c \in last.candles : c.timestamp < last.cutoff

\* C15's case: a later pass has written a new candle next to those of an
\* earlier pass
C15_Witness ==
    /\ CommittedPass
    /\ passes >= 2
    /\ last.candles # {}
    /\ candles # last.candles

SideOf(table, product_id, timestamp, side) ==
    { r \in table : /\ r.product_id = product_id
                    /\ r.timestamp = timestamp
                    /\ r.side = side }

\* C16: after any cycles and sweeps, the rows stored for a product, a
\* timestamp and a side have exactly the ranks 1..k for some k of 1..5, and a
\* product and timestamp with rows on one side has rows on the other.
C16_RanksContiguousBothSides ==
    \A r \in snapshots :
        LET mine == SideOf(snapshots, r.product_id, r.timestamp, r.side)
            k == Cardinality(mine)
        IN  /\ k \in 1..MaxDepth
            /\ { x.rank : x \in mine } = 1..k
            /\ SideOf(snapshots, r.product_id, r.timestamp,
                      IF r.side = "BUY" THEN "SELL" ELSE "BUY") # {}

\* C16's case: a sweep has left the rows of a later cycle, among them a side
\* of five levels cut from a deeper book and a side of fewer levels
C16_Witness ==
    /\ CommittedPass
    /\ last.snapshots # snapshots
    /\ \E r \in snapshots :
          /\ r.rank = MaxDepth
          /\ Cardinality(SideOf(snapshots, r.product_id, r.timestamp, "SELL")) < MaxDepth

WindowSells(id) ==
    { r \in last.snapshots : /\ r.product_id = id
                             /\ r.side = "SELL"
                             /\ r.rank = 1
                             /\ r.timestamp >= last.cutoff }

WithoutSells == { r \in last.snapshots : r.side # "SELL" }

WithoutBestBuys == { r \in last.snapshots : ~(r.side = "BUY" /\ r.rank = 1) }

\* C17: the sell_volume of a candle a committed pass writes is the sum of the
\* amounts of the product's rank-1 SELL snapshots at or after the cutoff, and
\* the SELL rows decide nothing else: over the same relation without its SELL
\* rows the pass computes the same candle with sell_volume 0, and over the
\* relation without its rank-1 BUY rows it writes no candle at all.
C17_SellVolumeIndependent ==
    CommittedPass =>
       /\ \A id \in Products :
             IF WindowBuys(id) # {}
             THEN /\ \E c \in candles :
                        /\ c.product_id = id
                        /\ \A x \in WindowBuys(id) : x.timestamp <= c.timestamp
                        /\ \E x \in WindowBuys(id) : x.timestamp = c.timestamp
                        /\ c.sell_volume = SumAmount(WindowSells(id))
                  /\ Candle(WithoutSells, id, last.cutoff)
                        = [Candle(last.snapshots, id, last.cutoff) EXCEPT !.sell_volume = 0]
             ELSE { c \in candles : c.product_id = id }
                     = { c \in last.candles : c.product_id = id }
       /\ UpsertAll(last.candles, WithoutBestBuys,
                    WindowProducts(WithoutBestBuys, last.cutoff), last.cutoff)
             = last.candles

\* C17's case: a candle was written over a window of several snapshots whose
\* SELL amounts add up to something else than the BUY amounts, next to a
\* product that has rows in the window
C17_Witness ==
    /\ CommittedPass
    /\ \E id \in Products, c \in candles :
          /\ Cardinality(WindowSells(id)) >= 2
          /\ c.product_id = id
          /\ c.timestamp = last.now
          /\ c.sell_volume = SumAmount(WindowSells(id))
          /\ c.sell_volume # c.buy_volume
          /\ c.sell_volume > 0
    /\ WindowProducts(WithoutBestBuys, last.cutoff) # {}

\* C19: every candle has low <= open <= high and low <= close <= high and
\* volumes that are not negative; and a candle a committed pass writes, new
\* or over an existing one, has a window end that is not before the cutoff of
\* the pass and is the timestamp of a rank-1 BUY snapshot the relation held
\* at that pass.
C19_CandleWellFormed ==
    /\ \A c \in candles :
          /\ c.low <= c.open /\ c.open <= c.high
          /\ c.low <= c.close /\ c.close <= c.high
          /\ c.buy_volume >= 0
          /\ c.sell_volume >= 0
    /\ CommittedPass =>
          \A c \in candles \ last.candles :
             /\ c.timestamp >= last.cutoff
             /\ \E r \in last.snapshots :
                   /\ r.product_id = c.product_id
                   /\ r.side = "BUY"
                   /\ r.rank = 1
                   /\ r.timestamp = c.timestamp

\* C19's case: a pass has written, over a candle of an earlier pass in whose
\* window the price moved, the candle of a window that begins at its window end
C19_Witness ==
    /\ CommittedPass
    /\ \E d \in last.candles, c \in candles \ last.candles :
          /\ SameCandleKey(c, d)
          /\ d.low < d.high
          /\ c.timestamp = last.cutoff

\* C20: in one run of the loop no snapshot is in the window of two passes:
\* when a pass starts, its cutoff is not before the moment the previous pass
\* ended, every snapshot a committed pass had in its window is older than the
\* cutoff, and so none of them is in the window of this pass.
C20_NoDoubleCounting ==
    pc = "AGGREGATING" =>
       LET cutoff == CutoffTime(clock, candle_interval)
       IN  /\ cutoff >= prev_pass_end
           /\ \A r \in consumed : r.timestamp < cutoff
           /\ InWindow(snapshots, cutoff) \cap consumed = {}

\* C20's case: a second pass starts with snapshots in its window, after a
\* pass that had snapshots in its own
C20_Witness ==
    /\ pc = "AGGREGATING"
    /\ passes >= 1
    /\ consumed # {}
    /\ InWindow(snapshots, CutoffTime(clock, candle_interval)) # {}

====
